---- MODULE Spec2Model ----
(***************************************************************************)
(* MuSig2 token-transfer signing of solana-token-tss (src/src/tss.rs,      *)
(* src/src/main.rs, src/src/serialization.rs).                             *)
(*                                                                         *)
(* The Ed25519 group is modelled by a cyclic group of prime order Q: the   *)
(* point k*B is represented by k in 0..Q-1, scalars are the integers mod Q.*)
(* A 32-byte string is one value of 0..Q.  The strings 1..Q encode the Q   *)
(* points and 0 (thirty-two zero bytes) encodes none; the strings 0..Q-1   *)
(* are the canonical scalars and Q is a non-canonical one.                 *)
(* SHA-512 is a fixed mixing function of the hashed byte strings.          *)
(* The functions of the multi_party_eddsa::protocols::musig2 crate are     *)
(* modelled at the places tss.rs calls them.                               *)
(***************************************************************************)
EXTENDS Integers, Sequences, FiniteSets, TLC

\* ------------------------------------------------------------------ bounds
\* Number of parties that hold a keypair.
NParties == 2
\* Longest list of partial signatures handed to the aggregator.
MaxSigs == 3
\* Longest key list handed to key_agg on its own.
MaxKeys == 2
\* The RNG of step one draws each private nonce from 1 .. MaxNonce.
MaxNonce == 2
\* Number of agg-send-step-two-token runs of a session.
MaxStepTwo == 2
\* Most 32-byte fields after the first byte of a received byte string.
MaxFields == 5

\* --------------------------------------------------------- Ed25519 (curv)
\* Order of the group generated by the base point.
Q == 5

Scalars == 0 .. (Q - 1)
Points == 0 .. (Q - 1)
\* Every 32-byte string of the model.
Bytes32 == 0 .. Q

None == [tag |-> "None"]
Some(v) == [tag |-> "Some", v |-> v]
Ok(v) == [tag |-> "Ok", v |-> v]
Err(e) == [tag |-> "Err", err |-> e]
Panic == [tag |-> "Panic"]

\* Point::to_bytes(true): the compressed encoding, a bijection Points -> 1..Q.
PointToBytes(P) == ((2 * P + 1) % Q) + 1

\* Point::from_bytes: the point of a valid encoding, an error otherwise.
PointFromBytes(b) ==
    IF \E P \in Points : PointToBytes(P) = b
    THEN Ok(CHOOSE P \in Points : PointToBytes(P) = b)
    ELSE Err("InvalidPoint")

\* Scalar::to_bytes: the canonical encoding.
ScalarToBytes(s) == s % Q

\* Scalar::from_bytes: canonical encodings only.
ScalarFromBytes(b) == IF b \in Scalars THEN Ok(b) ELSE Err("InvalidScalar")

\* SHA-512 of a byte string, reduced to a scalar; dom separates the uses.
RECURSIVE Mix(_, _)
Mix(h, s) == IF s = <<>> THEN h ELSE Mix((h * 31 + Head(s) + 7) % 251, Tail(s))

HashToScalar(dom, s) == Mix(dom, s) % Q

\* Sum of a sequence of group elements / scalars.
RECURSIVE SumSeq(_)
SumSeq(s) == IF s = <<>> THEN 0 ELSE (Head(s) + SumSeq(Tail(s))) % Q

\* ------------------------------------------------------------- keypairs
Party == 1 .. NParties

\* ExpandedKeyPair::create_from_private_key: the secret scalar of a keypair.
\* Party p holds the keypair whose expanded secret scalar is p.
ExpandedSecret(kp) == kp

\* Keypair::pubkey: the encoding of x*B.
KeypairPubkey(kp) == PointToBytes(ExpandedSecret(kp) % Q)

\* -------------------------------------------------- musig2 key aggregation
\* pks.sort_by(bytes): insertion of a point into a list sorted by encoding.
RECURSIVE InsertSorted(_, _)
InsertSorted(P, s) ==
    IF s = <<>> THEN <<P>>
    ELSE IF PointToBytes(P) <= PointToBytes(Head(s)) THEN <<P>> \o s
    ELSE <<Head(s)>> \o InsertSorted(P, Tail(s))

\* The list left in the order it was given.
SortPoints_Unsorted(s) == s

RECURSIVE SortPoints(_)
SortPoints(s) == IF s = <<>> THEN <<>> ELSE InsertSorted(Head(s), SortPoints(Tail(s)))

EncodeAll(pks) == [i \in 1 .. Len(pks) |-> PointToBytes(pks[i])]

\* a_i = H(1 || L || P_i) with L the encodings of the sorted list.
MusigCoefficient(sorted, P) == HashToScalar(1, EncodeAll(sorted) \o <<PointToBytes(P)>>)

\* key_aggregation_n whose sum counts the term of my_public_key twice.
key_aggregation_n_FocusCounted(pks, my_public_key) ==
    LET sorted == SortPoints(pks)
        terms == [i \in 1 .. Len(sorted) |->
                     (MusigCoefficient(sorted, sorted[i]) * sorted[i]) % Q]
    IN  IF \E i \in 1 .. Len(pks) : pks[i] = my_public_key
        THEN Some([agg_public_key |->
                       (SumSeq(terms) + MusigCoefficient(sorted, my_public_key)
                                            * my_public_key) % Q,
                   musig_coefficient |-> MusigCoefficient(sorted, my_public_key)])
        ELSE None

\* key_aggregation_n without the membership test: the coefficient of a key
\* outside the list is computed like any other.
key_aggregation_n_AnyFocus(pks, my_public_key) ==
    LET sorted == SortPoints(pks)
        terms == [i \in 1 .. Len(sorted) |->
                     (MusigCoefficient(sorted, sorted[i]) * sorted[i]) % Q]
    IN  Some([agg_public_key |-> SumSeq(terms),
              musig_coefficient |-> MusigCoefficient(sorted, my_public_key)])

\* musig2::PublicKeyAgg::key_aggregation_n(pks, &my_public_key): the keys are
\* sorted by encoding, a_i = H(1 || L || P_i), the aggregated key is the sum
\* of a_i * P_i.  Some(agg key, coefficient of my_public_key), None when
\* my_public_key is no element of pks.
key_aggregation_n(pks, my_public_key) ==
    LET sorted == SortPoints(pks)
        terms == [i \in 1 .. Len(sorted) |->
                     (MusigCoefficient(sorted, sorted[i]) * sorted[i]) % Q]
    IN  IF \E i \in 1 .. Len(pks) : pks[i] = my_public_key
        THEN Some([agg_public_key |-> SumSeq(terms),
                   musig_coefficient |-> MusigCoefficient(sorted, my_public_key)])
        ELSE None

\* key_agg that looks for the bytes of the focus among the bytes of the list
\* before it decodes anything.
key_agg_MembershipFirst(keys, key) ==
    IF key.tag = "Some" /\ ~\E i \in 1 .. Len(keys) : keys[i] = key.v
    THEN Err("KeyPairIsNotInKeys")
    ELSE IF \E i \in 1 .. Len(keys) : PointFromBytes(keys[i]).tag = "Err"
    THEN Err("PointDeserializationFailed")
    ELSE IF key.tag = "None" /\ keys = <<>>
    THEN Panic
    ELSE LET pts == [i \in 1 .. Len(keys) |-> PointFromBytes(keys[i]).v]
             focus == IF key.tag = "Some" THEN PointFromBytes(key.v).v ELSE pts[1]
             r == key_aggregation_n(pts, focus)
         IN  IF r.tag = "Some" THEN Ok(r.v) ELSE Err("KeyPairIsNotInKeys")

\* key_agg(keys, key) of tss.rs.
key_agg(keys, key) ==
    LET conv == [i \in 1 .. Len(keys) |-> PointFromBytes(keys[i])]
        pts == [i \in 1 .. Len(keys) |-> conv[i].v]
    IN  IF \E i \in 1 .. Len(keys) : conv[i].tag = "Err"
        THEN Err("PointDeserializationFailed")
        ELSE IF key.tag = "Some" /\ PointFromBytes(key.v).tag = "Err"
        THEN Err("PointDeserializationFailed")
        ELSE IF key.tag = "None" /\ keys = <<>>
        THEN Panic
        ELSE LET focus == IF key.tag = "Some" THEN PointFromBytes(key.v).v ELSE pts[1]
                 r == key_aggregation_n(pts, focus)
             IN  IF r.tag = "Some" THEN Ok(r.v) ELSE Err("KeyPairIsNotInKeys")

\* let aggpubkey = Pubkey::from(aggkey.agg_public_key.to_bytes(true))
AggPubkey(aggkey) == PointToBytes(aggkey.agg_public_key)

\* ------------------------------------------------------ transaction binder
\* spl_token::id() and the associated-token program, as account addresses.
TokenProgramId == 101
\* Hash::default(), the blockhash of a message that was never signed.
DefaultBlockhash == 0
\* Signature::default(): sixty-four zero bytes.
DefaultSignature == <<0, 0>>

\* get_ata_address(wallet, mint): the program-derived address of the pair.
get_ata_address(wallet, mint) == 200 + Mix(4, <<wallet, mint>>)

\* RpcClient::get_account(address): what the node answers.
RpcAnswers == {"Account", "AccountNotFound", "TransportError"}
RpcIsErr(answer) == answer # "Account"

create_associated_token_account(payer, wallet, mint, program) ==
    [kind |-> "create_associated_token_account", payer |-> payer,
     wallet |-> wallet, mint |-> mint, token_program |-> program]

transfer_checked(program, source, mint, destination, authority, amount, decimals) ==
    [kind |-> "transfer_checked", token_program |-> program, source |-> source,
     mint |-> mint, destination |-> destination, authority |-> authority,
     amount |-> amount, decimals |-> decimals]

\* Message::new(&instructions, Some(payer)).
MessageNew(instructions, payer) ==
    [fee_payer |-> payer, instructions |-> instructions,
     recent_blockhash |-> DefaultBlockhash]

\* Transaction::new_unsigned(msg): one default signature per required signer;
\* the fee payer is the only signer of both instructions.
TransactionNewUnsigned(msg) == [signatures |-> <<DefaultSignature>>, message |-> msg]

\* create_unsigned_token_transaction; rpc is the node's answer to the lookup
\* of the destination ATA.
create_unsigned_token_transaction(mint, amount, decimals, to, payer, rpc) ==
    LET source_ata == get_ata_address(payer, mint)
        destination_ata == get_ata_address(to, mint)
        create == IF RpcIsErr(rpc)
                  THEN <<create_associated_token_account(payer, to, mint, TokenProgramId)>>
                  ELSE <<>>
        transfer_ix == transfer_checked(TokenProgramId, source_ata, mint,
                                        destination_ata, payer, amount, decimals)
    IN  Ok(TransactionNewUnsigned(MessageNew(create \o <<transfer_ix>>, payer)))

\* The bytes of one instruction as they enter the signed message.
InstructionBytes(ix) ==
    IF ix.kind = "create_associated_token_account"
    THEN <<1, ix.payer, ix.wallet, ix.mint, ix.token_program>>
    ELSE <<2, ix.token_program, ix.source, ix.mint, ix.destination, ix.authority,
           ix.amount, ix.decimals>>

RECURSIVE FlattenInstructions(_)
FlattenInstructions(ixs) ==
    IF ixs = <<>> THEN <<>>
    ELSE InstructionBytes(Head(ixs)) \o FlattenInstructions(Tail(ixs))

\* Message::serialize / Transaction::message_data: the bytes that are signed.
MessageData(msg) ==
    <<msg.fee_payer, msg.recent_blockhash, Len(msg.instructions)>>
        \o FlattenInstructions(msg.instructions)

\* ------------------------------------------------------------ Ed25519 verify
\* The challenge k = H(R || A || M) of an Ed25519 signature.
SignatureK(Rbytes, Abytes, message) == HashToScalar(3, <<Rbytes, Abytes>> \o message)

\* Signature::verify(pubkey, message): s*B = R + k*A with R, A points and s
\* canonical.
Ed25519Verify(pubkey, message, sig) ==
    LET A == PointFromBytes(pubkey)
        R == PointFromBytes(sig[1])
        s == ScalarFromBytes(sig[2])
    IN  /\ A.tag = "Ok" /\ R.tag = "Ok" /\ s.tag = "Ok"
        /\ s.v = (R.v + SignatureK(sig[1], pubkey, message) * A.v) % Q

\* Transaction::verify that only counts the signatures.
TransactionVerify_CountOnly(tx) == Len(tx.signatures) = 1

\* Transaction::verify: every signature against the key at its position;
\* the only signer is the fee payer.
TransactionVerify(tx) ==
    /\ Len(tx.signatures) = 1
    /\ Ed25519Verify(tx.message.fee_payer, MessageData(tx.message), tx.signatures[1])

\* --------------------------------------------------------- musig2 signing
\* musig2::partial_sign: the signer's public nonces are added to the nonces
\* of other_nonces.
partial_sign(other_nonces, private_nonces, public_nonces, aggkey, keypair, message) ==
    LET sum_R0 == (public_nonces[1]
                     + SumSeq([i \in 1 .. Len(other_nonces) |-> other_nonces[i][1]])) % Q
        sum_R1 == (public_nonces[2]
                     + SumSeq([i \in 1 .. Len(other_nonces) |-> other_nonces[i][2]])) % Q
        X == PointToBytes(aggkey.agg_public_key)
        b == HashToScalar(2, <<X, PointToBytes(sum_R0), PointToBytes(sum_R1)>> \o message)
        R == (sum_R0 + b * sum_R1) % Q
        r == (private_nonces[1] + b * private_nonces[2]) % Q
        k == SignatureK(PointToBytes(R), X, message)
    IN  [R |-> R,
         my_partial_s |-> (r + k * aggkey.musig_coefficient * ExpandedSecret(keypair)) % Q]

\* aggregate_partial_signatures that leaves the first partial s out of the sum.
aggregate_partial_signatures_OthersOnly(first_sig, partial_sigs) ==
    [R |-> first_sig.R, s |-> SumSeq(partial_sigs)]

\* musig2::aggregate_partial_signatures(&first, &others).
aggregate_partial_signatures(first_sig, partial_sigs) ==
    [R |-> first_sig.R, s |-> (first_sig.my_partial_s + SumSeq(partial_sigs)) % Q]

\* PartialSigner::try_sign_message: the 64 bytes R || s.
try_sign_message(signer, message) ==
    LET sig == partial_sign(signer.other_nonces, signer.signer_private_nonce,
                            signer.signer_public_nonce, signer.aggregated_pubkey,
                            signer.extended_keypair, message)
    IN  <<PointToBytes(sig.R), ScalarToBytes(sig.my_partial_s)>>

\* musig2::generate_partial_nonces with the random scalars r0, r1 drawn.
generate_partial_nonces(r0, r1) ==
    [private_nonces |-> <<r0, r1>>, public_nonces |-> <<r0 % Q, r1 % Q>>]

\* step_one that sends the two public nonces in the other order.
step_one_NoncesSwapped(keypair, r0, r1) ==
    LET n == generate_partial_nonces(r0, r1)
    IN  [msg |-> [sender |-> KeypairPubkey(keypair),
                  public_nonces |-> <<n.public_nonces[2], n.public_nonces[1]>>],
         secret |-> [private_nonces |-> n.private_nonces,
                     public_nonces |-> n.public_nonces]]

\* step_one(keypair) with the nonces the RNG returned.
step_one(keypair, r0, r1) ==
    LET n == generate_partial_nonces(r0, r1)
    IN  [msg |-> [sender |-> KeypairPubkey(keypair), public_nonces |-> n.public_nonces],
         secret |-> [private_nonces |-> n.private_nonces,
                     public_nonces |-> n.public_nonces]]

\* tx.sign(&[&signer], recent_block_hash) that signs the message as built,
\* without the blockhash.
SignedMessageData_AsBuilt(tx, recent_block_hash) == MessageData(tx.message)

\* tx.sign(&[&signer], recent_block_hash): the blockhash is put into the
\* message and the bytes of that message are handed to the signer.
SignedMessageData(tx, recent_block_hash) ==
    MessageData([tx.message EXCEPT !.recent_blockhash = recent_block_hash])

\* step_two_token up to tx.sign: the aggregated key with the coefficient of the
\* caller, the unsigned transaction and the bytes about to be signed.
step_two_token_prepare(keypair, mint, amount, decimals, to, recent_block_hash, keys, rpc) ==
    LET aggkey == key_agg(keys, Some(KeypairPubkey(keypair)))
    IN  IF aggkey.tag # "Ok" THEN aggkey
        ELSE
        LET tx == create_unsigned_token_transaction(mint, amount, decimals, to,
                                                    AggPubkey(aggkey.v), rpc)
        IN  IF tx.tag # "Ok" THEN tx
            ELSE Ok([aggkey |-> aggkey.v, tx |-> tx.v,
                     message_data |-> SignedMessageData(tx.v, recent_block_hash)])

\* step_two_token.
step_two_token(keypair, mint, amount, decimals, to, recent_block_hash, keys, first_messages, secret_state, rpc) ==
    LET other_nonces == [i \in 1 .. Len(first_messages) |-> first_messages[i].public_nonces]
        prepared == step_two_token_prepare(keypair, mint, amount, decimals, to,
                                           recent_block_hash, keys, rpc)
    IN  IF prepared.tag # "Ok" THEN prepared
        ELSE
        LET signer == [signer_private_nonce |-> secret_state.private_nonces,
                       signer_public_nonce |-> secret_state.public_nonces,
                       other_nonces |-> other_nonces,
                       extended_keypair |-> keypair,
                       aggregated_pubkey |-> prepared.v.aggkey]
            sig == try_sign_message(signer, prepared.v.message_data)
        IN  IF sig = DefaultSignature THEN Panic ELSE Ok(sig)

\* step_two_token that builds the transaction before it aggregates the keys.
step_two_token_lookups_BuildFirst(keypair, mint, to, keys) ==
    <<get_ata_address(to, mint)>>

\* The get_account calls of step_two_token, in order: the lookup of the
\* destination ATA inside create_unsigned_token_transaction, which is reached
\* only when key_agg has returned a key.
step_two_token_lookups(keypair, mint, to, keys) ==
    IF key_agg(keys, Some(KeypairPubkey(keypair))).tag # "Ok" THEN <<>>
    ELSE <<get_ata_address(to, mint)>>

\* The R check comparing the later signatures among themselves only.
AllRsEqual_SkipFirst(signatures) ==
    \A i \in 3 .. Len(signatures) : signatures[i][1] = signatures[2][1]

\* The R check of sign_and_broadcast_token: every later R equals the first.
AllRsEqual(signatures) ==
    \A i \in 2 .. Len(signatures) : signatures[i][1] = signatures[1][1]

\* sign_and_broadcast_token, lines 198-201: the transaction built again, with
\* the given blockhash.
rebuild_transaction(mint, amount, decimals, to, recent_block_hash, aggpubkey, rpc) ==
    LET tx0 == create_unsigned_token_transaction(mint, amount, decimals, to, aggpubkey, rpc)
    IN  IF tx0.tag # "Ok" THEN tx0
        ELSE Ok([tx0.v EXCEPT !.message.recent_blockhash = recent_block_hash])

\* sign_and_broadcast_token.
sign_and_broadcast_token(mint, amount, decimals, to, recent_block_hash, keys, signatures, rpc) ==
    LET aggkey == key_agg(keys, None)
    IN  IF aggkey.tag # "Ok" THEN aggkey
        ELSE IF signatures = <<>> THEN Panic
        ELSE IF ~AllRsEqual(signatures) THEN Err("MismatchMessages")
        ELSE IF PointFromBytes(signatures[1][1]).tag = "Err"
        THEN Err("PointDeserializationFailed")
        ELSE IF \E i \in 1 .. Len(signatures) : ScalarFromBytes(signatures[i][2]).tag = "Err"
        THEN Err("ScalarDeserializationFailed")
        ELSE
        LET aggpubkey == AggPubkey(aggkey.v)
            first_sig == [R |-> PointFromBytes(signatures[1][1]).v,
                          my_partial_s |-> ScalarFromBytes(signatures[1][2]).v]
            partial_sigs == [i \in 1 .. (Len(signatures) - 1) |->
                                ScalarFromBytes(signatures[i + 1][2]).v]
            full_sig == aggregate_partial_signatures(first_sig, partial_sigs)
            sig == <<PointToBytes(full_sig.R), ScalarToBytes(full_sig.s)>>
            tx0 == rebuild_transaction(mint, amount, decimals, to, recent_block_hash,
                                       aggpubkey, rpc)
        IN  IF tx0.tag # "Ok" THEN tx0
            ELSE
            LET tx == [tx0.v EXCEPT !.signatures[1] = sig]
            IN  IF ~TransactionVerify(tx) THEN Err("InvalidSignature") ELSE Ok(tx)

\* ------------------------------------------------------------- wire codec
\* Tag as u8.
TagAggregatedKey == 0
TagAggMessage1 == 1
TagPartialSignature == 2
TagSecretAggStepOne == 3
TagKeyAggMessage == 4

\* From<u8> that reduces the byte modulo the number of tags.
TagFromU8_Modulo(t) ==
    IF t % 5 = TagAggregatedKey THEN "AggregatedKey"
    ELSE IF t % 5 = TagAggMessage1 THEN "AggMessage1"
    ELSE IF t % 5 = TagPartialSignature THEN "PartialSignature"
    ELSE IF t % 5 = TagSecretAggStepOne THEN "SecretAggStepOne"
    ELSE "KeyAggMessage"

\* impl From<u8> for Tag.
TagFromU8(t) ==
    IF t = TagAggregatedKey THEN "AggregatedKey"
    ELSE IF t = TagAggMessage1 THEN "AggMessage1"
    ELSE IF t = TagPartialSignature THEN "PartialSignature"
    ELSE IF t = TagSecretAggStepOne THEN "SecretAggStepOne"
    ELSE IF t = TagKeyAggMessage THEN "KeyAggMessage"
    ELSE "Unknown"

\* A byte string is the sequence of its fields: each is w bytes wide and holds
\* the value v.  The first byte is the tag byte, points, scalars and keys are
\* thirty-two bytes, the key count of an AggregatedKeyInfo is a u32.
TagByte(t) == [w |-> 1, v |-> t]
Word32(x) == [w |-> 32, v |-> x]
U32Le(n) == [w |-> 4, v |-> n]

\* b.len()
RECURSIVE ByteLen(_)
ByteLen(b) == IF b = <<>> THEN 0 ELSE Head(b).w + ByteLen(Tail(b))

\* serialization::Error
InputTooShort(expected, found) ==
    [kind |-> "InputTooShort", expected |-> expected, found |-> found]
BadBase58 == [kind |-> "BadBase58"]
InvalidPoint == [kind |-> "InvalidPoint"]
InvalidScalar == [kind |-> "InvalidScalar"]
WrongTag(expected, found) == [kind |-> "WrongTag", expected |-> expected, found |-> found]

\* bs58::encode(..).into_string() / bs58::decode(..).into_vec(): a base58
\* string is the byte string it spells; any other text is no base58.
Bs58Encode(bytes) == [bs58 |-> bytes]
Bs58Decode(str) == IF "bs58" \in DOMAIN str THEN Ok(str.bs58) ELSE Err(BadBase58)

AggregatedKeyInfo_serialize(info) ==
    <<TagByte(TagAggregatedKey), Word32(info.aggregated_pubkey),
      U32Le(Len(info.participant_keys))>>
        \o [i \in 1 .. Len(info.participant_keys) |-> Word32(info.participant_keys[i])]

AggregatedKeyInfo_deserialize(b) ==
    IF ByteLen(b) < 1 + 32 + 4 THEN Err(InputTooShort(1 + 32 + 4, ByteLen(b)))
    ELSE IF TagFromU8(b[1].v) # "AggregatedKey"
    THEN Err(WrongTag("AggregatedKey", TagFromU8(b[1].v)))
    ELSE IF ByteLen(b) < 1 + 32 + 4 + (b[3].v * 32)
    THEN Err(InputTooShort(1 + 32 + 4 + (b[3].v * 32), ByteLen(b)))
    ELSE Ok([aggregated_pubkey |-> b[2].v,
             participant_keys |-> [i \in 1 .. b[3].v |-> b[3 + i].v]])

\* AggMessage1::serialize that writes the sender before the nonces.
AggMessage1_serialize_SenderFirst(m) ==
    <<TagByte(TagAggMessage1), Word32(m.sender),
      Word32(PointToBytes(m.public_nonces[1])), Word32(PointToBytes(m.public_nonces[2]))>>

AggMessage1_serialize(m) ==
    <<TagByte(TagAggMessage1), Word32(PointToBytes(m.public_nonces[1])),
      Word32(PointToBytes(m.public_nonces[2])), Word32(m.sender)>>

\* AggMessage1::deserialize that accepts the encoded length only.
AggMessage1_deserialize_ExactLength(b) ==
    IF ByteLen(b) # 1 + 32 + 32 + 32 THEN Err(InputTooShort(1 + 32 + 32 + 32, ByteLen(b)))
    ELSE IF TagFromU8(b[1].v) # "AggMessage1"
    THEN Err(WrongTag("AggMessage1", TagFromU8(b[1].v)))
    ELSE IF PointFromBytes(b[2].v).tag = "Err" \/ PointFromBytes(b[3].v).tag = "Err"
    THEN Err(InvalidPoint)
    ELSE Ok([public_nonces |-> <<PointFromBytes(b[2].v).v, PointFromBytes(b[3].v).v>>,
             sender |-> b[4].v])

AggMessage1_deserialize(b) ==
    IF ByteLen(b) < 1 + 32 + 32 + 32 THEN Err(InputTooShort(1 + 32 + 32 + 32, ByteLen(b)))
    ELSE IF TagFromU8(b[1].v) # "AggMessage1"
    THEN Err(WrongTag("AggMessage1", TagFromU8(b[1].v)))
    ELSE IF PointFromBytes(b[2].v).tag = "Err" \/ PointFromBytes(b[3].v).tag = "Err"
    THEN Err(InvalidPoint)
    ELSE Ok([public_nonces |-> <<PointFromBytes(b[2].v).v, PointFromBytes(b[3].v).v>>,
             sender |-> b[4].v])

SecretAggStepOne_serialize(st) ==
    <<TagByte(TagSecretAggStepOne), Word32(ScalarToBytes(st.private_nonces[1])),
      Word32(ScalarToBytes(st.private_nonces[2])), Word32(PointToBytes(st.public_nonces[1])),
      Word32(PointToBytes(st.public_nonces[2]))>>

SecretAggStepOne_deserialize(b) ==
    IF ByteLen(b) < 1 + 32 + 32 + 32 + 32
    THEN Err(InputTooShort(1 + 32 + 32 + 32 + 32, ByteLen(b)))
    ELSE IF TagFromU8(b[1].v) # "SecretAggStepOne"
    THEN Err(WrongTag("SecretAggStepOne", TagFromU8(b[1].v)))
    ELSE IF ScalarFromBytes(b[2].v).tag = "Err" \/ ScalarFromBytes(b[3].v).tag = "Err"
    THEN Err(InvalidScalar)
    ELSE IF PointFromBytes(b[4].v).tag = "Err" \/ PointFromBytes(b[5].v).tag = "Err"
    THEN Err(InvalidPoint)
    ELSE Ok([private_nonces |-> <<ScalarFromBytes(b[2].v).v, ScalarFromBytes(b[3].v).v>>,
             public_nonces |-> <<PointFromBytes(b[4].v).v, PointFromBytes(b[5].v).v>>])

PartialSignature_serialize(sig) ==
    <<TagByte(TagPartialSignature), Word32(sig[1]), Word32(sig[2])>>

\* PartialSignature::deserialize without the tag check.
PartialSignature_deserialize_NoTagCheck(b) ==
    IF ByteLen(b) < 1 + 64 THEN Err(InputTooShort(1 + 64, ByteLen(b)))
    ELSE Ok(<<b[2].v, b[3].v>>)

PartialSignature_deserialize(b) ==
    IF ByteLen(b) < 1 + 64 THEN Err(InputTooShort(1 + 64, ByteLen(b)))
    ELSE IF TagFromU8(b[1].v) # "PartialSignature"
    THEN Err(WrongTag("PartialSignature", TagFromU8(b[1].v)))
    ELSE Ok(<<b[2].v, b[3].v>>)

\* Serialize::deserialize_bs58 of each type: bs58::decode, then deserialize.
AggregatedKeyInfo_deserialize_bs58(str) ==
    IF Bs58Decode(str).tag = "Err" THEN Bs58Decode(str)
    ELSE AggregatedKeyInfo_deserialize(Bs58Decode(str).v)

AggMessage1_deserialize_bs58(str) ==
    IF Bs58Decode(str).tag = "Err" THEN Bs58Decode(str)
    ELSE AggMessage1_deserialize(Bs58Decode(str).v)

SecretAggStepOne_deserialize_bs58(str) ==
    IF Bs58Decode(str).tag = "Err" THEN Bs58Decode(str)
    ELSE SecretAggStepOne_deserialize(Bs58Decode(str).v)

PartialSignature_deserialize_bs58(str) ==
    IF Bs58Decode(str).tag = "Err" THEN Bs58Decode(str)
    ELSE PartialSignature_deserialize(Bs58Decode(str).v)

\* =================================================================== state
VARIABLES
    call,       \* a function call under study: its arguments and its result
    shares,     \* per party, what agg-send-step-one printed
    partials,   \* what the agg-send-step-two-token runs printed
    ataExists,  \* on chain: the destination ATA exists
    agg,        \* the latest aggregate-signatures-and-broadcast-token run
    sent        \* transactions handed to send_transaction and accepted

vars == <<call, shares, partials, ataExists, agg, sent>>

Pending == [tag |-> "Pending"]
NoCall == [op |-> "none"]

\* ------------------------------------------------------------ session data
\* The participant list of the session: the parties' public keys.
SessionKeys == [p \in Party |-> KeypairPubkey(p)]
Mint == 1
Recipient == 2
Decimals == 6
\* The amount the session agreed on, and the amounts a party may sign for.
AgreedAmount == 1
Amounts == {AgreedAmount, 2}
Blockhash == 1

\* The state of a session no command has run in.
ProtocolIdle ==
    /\ shares = [p \in Party |-> None]
    /\ partials = {}
    /\ ataExists = FALSE
    /\ agg = None
    /\ sent = {}

ProtocolVars == <<shares, partials, ataExists, agg, sent>>

SeqsUpTo(S, n) == UNION {[1 .. k -> S] : k \in 0 .. n}

\* ------------------------------------------------- the commands of main.rs
\* Sequences without repetition over S, of length at most n.
DistinctSeqs(S, n) ==
    {q \in SeqsUpTo(S, n) : \A i, j \in 1 .. Len(q) : i # j => q[i] # q[j]}

\* What get_account answers while the chain is in its present state.
RpcNow == IF ataExists THEN "Account" ELSE "AccountNotFound"

\* The lists of first messages a party hands to step two: the messages of
\* all parties, or of all parties but itself, in any order.
SenderLists(p) ==
    {q \in DistinctSeqs(Party, NParties) :
        {q[i] : i \in 1 .. Len(q)} \in {Party, Party \ {p}}}

\* Options::AggSendStepOne: the two printed lines.
main_AggSendStepOne(keypair, r0, r1) ==
    LET out == step_one(keypair, r0, r1)
    IN  [secret |-> Bs58Encode(SecretAggStepOne_serialize(out.secret)),
         public |-> Bs58Encode(AggMessage1_serialize(out.msg))]

\* Options::AggSendStepTwoToken: the printed partial signature or the error.
main_AggSendStepTwoToken(keypair, mint, amount, decimals, to, block_hash, keys, first_messages, secret_state, rpc) ==
    LET parsed_first == [i \in 1 .. Len(first_messages) |->
                            AggMessage1_deserialize_bs58(first_messages[i])]
        parsed_secret == SecretAggStepOne_deserialize_bs58(secret_state)
    IN  IF \E i \in 1 .. Len(first_messages) : parsed_first[i].tag = "Err"
        THEN Err("FileReadError")
        ELSE IF parsed_secret.tag = "Err" THEN Err("FileReadError")
        ELSE
        LET partial_signature ==
                step_two_token(keypair, mint, amount, decimals, to, block_hash, keys,
                               [i \in 1 .. Len(first_messages) |-> parsed_first[i].v],
                               parsed_secret.v, rpc)
        IN  IF partial_signature.tag # "Ok" THEN partial_signature
            ELSE Ok(Bs58Encode(PartialSignature_serialize(partial_signature.v)))

\* Options::AggregateSignaturesAndBroadcastToken up to send_transaction: the
\* transaction to send or the error.
main_AggregateSignatures(signatures, mint, amount, decimals, to, block_hash, keys, rpc) ==
    LET parsed == [i \in 1 .. Len(signatures) |->
                      PartialSignature_deserialize_bs58(signatures[i])]
    IN  IF \E i \in 1 .. Len(signatures) : parsed[i].tag = "Err"
        THEN Err("FileReadError")
        ELSE sign_and_broadcast_token(mint, amount, decimals, to, block_hash, keys,
                                      [i \in 1 .. Len(signatures) |-> parsed[i].v], rpc)

Init ==
    /\ call = NoCall
    /\ ProtocolIdle

\* Party p runs agg-send-step-one; the RNG returns r0 and r1.
AggSendStepOne(p, r0, r1) ==
    /\ shares[p] = None
    /\ shares' = [shares EXCEPT ![p] = Some(main_AggSendStepOne(p, r0, r1))]
    /\ UNCHANGED <<call, partials, ataExists, agg, sent>>

\* Party p runs agg-send-step-two-token with its own secret share and the
\* public shares of the parties in senders, in that order.  A printed partial
\* signature is kept with the run that made it.
AggSendStepTwoToken(p, amount, senders) ==
    /\ shares[p] # None
    /\ \A i \in 1 .. Len(senders) : shares[senders[i]] # None
    /\ Cardinality(partials) < MaxStepTwo
    /\ \E result \in {main_AggSendStepTwoToken(
                          p, Mint, amount, Decimals, Recipient, Blockhash, SessionKeys,
                          [i \in 1 .. Len(senders) |-> shares[senders[i]].v.public],
                          shares[p].v.secret, RpcNow)} :
          partials' = IF result.tag = "Ok"
                      THEN partials \cup
                               {[party |-> p, secret_state |-> shares[p].v.secret,
                                 senders |-> {senders[i] : i \in 1 .. Len(senders)},
                                 amount |-> amount,
                                 rpc |-> RpcNow,
                                 message_data |->
                                     step_two_token_prepare(
                                         p, Mint, amount, Decimals, Recipient,
                                         Blockhash, SessionKeys, RpcNow).v.message_data,
                                 signature |-> result.v]}
                      ELSE partials
    /\ UNCHANGED <<call, shares, ataExists, agg, sent>>

\* aggregate-signatures-and-broadcast-token for the agreed amount on the
\* printed partial signatures sel, in that order: what it hands to
\* send_transaction, or its error.
AggregateResult(sel) ==
    main_AggregateSignatures([i \in 1 .. Len(sel) |-> sel[i].signature], Mint,
                             AgreedAmount, Decimals, Recipient, Blockhash, SessionKeys,
                             RpcNow)

\* Somebody runs aggregate-signatures-and-broadcast-token; accepted is the
\* node's answer to send_transaction, which is called on Ok only.
AggregateSignaturesAndBroadcastToken(sel, accepted) ==
    \E result \in {AggregateResult(sel)} :
        /\ accepted \/ result.tag = "Ok"
        /\ agg' = Some([sel |-> sel, amount |-> AgreedAmount, rpc |-> RpcNow,
                        result |-> result])
        /\ sent' = IF result.tag = "Ok" /\ accepted THEN sent \cup {result.v} ELSE sent
        /\ UNCHANGED <<call, shares, partials, ataExists>>

\* Somebody creates the destination ATA on chain.
AtaCreated ==
    /\ ~ataExists
    /\ ataExists' = TRUE
    /\ UNCHANGED <<call, shares, partials, agg, sent>>

Next ==
    \/ \E p \in Party, r0, r1 \in 1 .. MaxNonce : AggSendStepOne(p, r0, r1)
    \/ \E p \in Party, amount \in Amounts : \E senders \in SenderLists(p) :
            AggSendStepTwoToken(p, amount, senders)
    \/ \E sel \in DistinctSeqs(partials, MaxSigs), accepted \in BOOLEAN :
            AggregateSignaturesAndBroadcastToken(sel, accepted)
    \/ AtaCreated

Spec == Init /\ [][Next]_vars

\* ---------------------------------------------- key_agg on drawn arguments
KeyAggInit ==
    /\ call \in {[op |-> "key_agg", keys |-> ks, key |-> k, result |-> Pending] :
                    ks \in SeqsUpTo(Bytes32, MaxKeys),
                    k \in {None} \cup {Some(b) : b \in Bytes32}}
    /\ ProtocolIdle

KeyAggCall ==
    /\ call.op = "key_agg"
    /\ call.result = Pending
    /\ call' = [call EXCEPT !.result = key_agg(call.keys, call.key)]
    /\ UNCHANGED ProtocolVars

KeyAggNext == KeyAggCall

SpecKeyAgg == KeyAggInit /\ [][KeyAggNext]_vars

\* --------------------------- sign_and_broadcast_token on drawn arguments
\* Partial signatures as received: R is one of two points or no point,
\* s one of three scalars or not canonical.
PartialSigInputs ==
    {<<R, s>> : R \in {0, PointToBytes(1), PointToBytes(2)}, s \in {0, 1, 2, Q}}

AggKeyLists == {<<>>, SessionKeys, <<KeypairPubkey(1), 0>>}

AggInit ==
    /\ call \in {[op |-> "sign_and_broadcast_token", keys |-> ks, signatures |-> sigs,
                  rpc |-> a, result |-> Pending] :
                    ks \in AggKeyLists,
                    sigs \in SeqsUpTo(PartialSigInputs, MaxSigs),
                    a \in {"Account", "AccountNotFound"}}
    /\ ProtocolIdle

AggApply(c) ==
    sign_and_broadcast_token(Mint, 1, Decimals, Recipient, Blockhash, c.keys,
                             c.signatures, c.rpc)

AggCall ==
    /\ call.op = "sign_and_broadcast_token"
    /\ call.result = Pending
    /\ call' = [call EXCEPT !.result = AggApply(call)]
    /\ UNCHANGED ProtocolVars

AggNext == AggCall

SpecAgg == AggInit /\ [][AggNext]_vars

\* ------------------- create_unsigned_token_transaction on drawn arguments
\* What get_account can answer when the destination ATA exists or not: the
\* truth, or a failure of the transport.
LookupAnswers(exists) ==
    {IF exists THEN "Account" ELSE "AccountNotFound", "TransportError"}

TxMints == {Mint, Mint + 1}
TxAmounts == {0} \cup Amounts
TxDecimals == {0, Decimals}

TxInit ==
    /\ ataExists \in BOOLEAN
    /\ \E mint \in TxMints, amount \in TxAmounts, decimals \in TxDecimals,
          to \in Bytes32, payer \in Bytes32 :
          \E rpc \in LookupAnswers(ataExists) :
              call = [op |-> "create_unsigned_token_transaction", mint |-> mint,
                      amount |-> amount, decimals |-> decimals, to |-> to,
                      payer |-> payer, rpc |-> rpc, result |-> Pending]
    /\ shares = [p \in Party |-> None]
    /\ partials = {}
    /\ agg = None
    /\ sent = {}

TxCall ==
    /\ call.op = "create_unsigned_token_transaction"
    /\ call.result = Pending
    /\ call' = [call EXCEPT !.result =
                    create_unsigned_token_transaction(call.mint, call.amount,
                                                      call.decimals, call.to,
                                                      call.payer, call.rpc)]
    /\ UNCHANGED ProtocolVars

TxNext == TxCall

SpecTx == TxInit /\ [][TxNext]_vars

\* ---------------------------------------- step_two_token on drawn arguments
\* The key of a keypair that is no party of the session.
OutsiderKey == KeypairPubkey(NParties + 1)

\* First messages as received: the sender is a key of the list or the
\* outsider, the public nonces are those of some step one.
FirstMessageInputs ==
    {[sender |-> k, public_nonces |-> generate_partial_nonces(1, r1).public_nonces] :
        k \in {SessionKeys[p] : p \in Party} \cup {OutsiderKey},
        r1 \in 1 .. MaxNonce}

\* Secret states as decoded from a tag-3 string: two canonical scalars and
\* two points, which are the points of those scalars or, for the second, the
\* point of another scalar.
SecretStateInputs ==
    {[private_nonces |-> generate_partial_nonces(r0, r1).private_nonces,
      public_nonces |-> generate_partial_nonces(r0, r1 + d).public_nonces] :
        r0 \in 1 .. MaxNonce, r1 \in 1 .. MaxNonce, d \in 0 .. 1}

\* The participant lists handed to step two: the session's, or a list with
\* an entry that is no point.
StepTwoKeyLists == {SessionKeys, <<KeypairPubkey(1), 0>>}

\* The caller is a party of the session or the holder of the outsider key.
StepTwoInit ==
    /\ \E p \in 1 .. (NParties + 1), keys \in StepTwoKeyLists,
          secret_state \in SecretStateInputs :
          \E first_messages \in SeqsUpTo(FirstMessageInputs, NParties) :
              call = [op |-> "step_two_token", keypair |-> p, keys |-> keys,
                      first_messages |-> first_messages,
                      secret_state |-> secret_state,
                      lookups |-> <<>>,
                      result |-> Pending]
    /\ ProtocolIdle

StepTwoApply(c, first_messages) ==
    step_two_token(c.keypair, Mint, AgreedAmount, Decimals, Recipient, Blockhash,
                   c.keys, first_messages, c.secret_state, "AccountNotFound")

\* The call returns; the addresses it looked up over RPC are kept with it.
StepTwoCall ==
    /\ call.op = "step_two_token"
    /\ call.result = Pending
    /\ call' = [call EXCEPT
                    !.result = StepTwoApply(call, call.first_messages),
                    !.lookups = step_two_token_lookups(call.keypair, Mint, Recipient,
                                                       call.keys)]
    /\ UNCHANGED ProtocolVars

StepTwoNext == StepTwoCall

SpecStepTwo == StepTwoInit /\ [][StepTwoNext]_vars

\* ------------------------------------------- the codec on drawn arguments
\* The four types that implement Serialize, named by their tags.
CodecKinds == {"AggregatedKey", "AggMessage1", "PartialSignature", "SecretAggStepOne"}

\* <T as Serialize>::serialize
Serialize(kind, x) ==
    CASE kind = "AggregatedKey" -> AggregatedKeyInfo_serialize(x)
      [] kind = "AggMessage1" -> AggMessage1_serialize(x)
      [] kind = "PartialSignature" -> PartialSignature_serialize(x)
      [] kind = "SecretAggStepOne" -> SecretAggStepOne_serialize(x)

\* <T as Serialize>::deserialize
Deserialize(kind, b) ==
    CASE kind = "AggregatedKey" -> AggregatedKeyInfo_deserialize(b)
      [] kind = "AggMessage1" -> AggMessage1_deserialize(b)
      [] kind = "PartialSignature" -> PartialSignature_deserialize(b)
      [] kind = "SecretAggStepOne" -> SecretAggStepOne_deserialize(b)

\* <T as Serialize>::deserialize_bs58
DeserializeBs58(kind, str) ==
    CASE kind = "AggregatedKey" -> AggregatedKeyInfo_deserialize_bs58(str)
      [] kind = "AggMessage1" -> AggMessage1_deserialize_bs58(str)
      [] kind = "PartialSignature" -> PartialSignature_deserialize_bs58(str)
      [] kind = "SecretAggStepOne" -> SecretAggStepOne_deserialize_bs58(str)

\* serialize or serialize_bs58, deserialize or deserialize_bs58.
Encode(kind, via, x) ==
    IF via = "bs58" THEN Bs58Encode(Serialize(kind, x)) ELSE Serialize(kind, x)
Decode(kind, via, w) ==
    IF via = "bs58" THEN DeserializeBs58(kind, w) ELSE Deserialize(kind, w)

\* Values of the four types: the points and scalars they hold are points and
\* scalars; a Pubkey and a Signature are any bytes.
CodecValues(kind) ==
    CASE kind = "AggregatedKey" ->
            {[aggregated_pubkey |-> a, participant_keys |-> ks] :
                a \in {1, 2}, ks \in SeqsUpTo({1, 2}, MaxKeys)}
      [] kind = "AggMessage1" ->
            {[public_nonces |-> <<a, b>>, sender |-> k] :
                a \in {1, 2}, b \in {1, 2}, k \in {0, KeypairPubkey(1)}}
      [] kind = "PartialSignature" -> PartialSigInputs
      [] kind = "SecretAggStepOne" ->
            {[private_nonces |-> <<a, b>>, public_nonces |-> <<c, d>>] :
                a \in {0, 1}, b \in {0, 1}, c \in {1, 2}, d \in {1, 2}}

\* First bytes of received strings: the five tags and two bytes that are none.
TagBytes == {TagAggregatedKey, TagAggMessage1, TagPartialSignature,
             TagSecretAggStepOne, TagKeyAggMessage, 5, 255}

\* Thirty-two bytes of a received string: no point but a scalar, both, a point
\* but no canonical scalar.
FieldInputs == {0, 1, Q}

\* Received byte strings: nothing, a first byte followed by 32-byte fields, and
\* the layout of an AggregatedKeyInfo with any count and any number of keys.
WireInputs ==
    {<<>>}
      \cup {<<TagByte(t)>> \o [i \in 1 .. Len(f) |-> Word32(f[i])] :
                t \in TagBytes, f \in SeqsUpTo(FieldInputs, MaxFields)}
      \cup {<<TagByte(t), Word32(1), U32Le(n)>> \o ks :
                t \in {TagAggregatedKey, 5}, n \in 0 .. (MaxKeys + 1),
                ks \in SeqsUpTo({Word32(1)}, MaxKeys)}

\* The decoder reads whole fields of b: b is too short or of another tag, or
\* its fields lie where the decoder's type has them.
ReadsWholeFields(kind, b) ==
    \/ Len(b) = 0
    \/ TagFromU8(b[1].v) # kind
    \/ /\ kind = "AggregatedKey"
       /\ \/ ByteLen(b) < 1 + 32 + 4
          \/ /\ b[2].w = 32 /\ b[3].w = 4
             /\ \A i \in 4 .. Len(b) : b[i].w = 32
    \/ /\ kind # "AggregatedKey"
       /\ \A i \in 2 .. Len(b) : b[i].w = 32

\* A text that is no base58.
NotBase58 == [text |-> "0OIl"]

\* The calls under study: a value is serialized and the bytes go to a decoder.
CodecValueCalls ==
    UNION {{[op |-> "codec", kind |-> k, decoder |-> d, via |-> via,
             value |-> Some(x), wire |-> None, result |-> Pending] :
                 d \in CodecKinds, via \in {"bytes", "bs58"},
                 x \in CodecValues(k)} : k \in CodecKinds}

\* A call under study: the received bytes b, as they are or spelled in
\* base58, go to decoder d.
CodecReceivedCall(d, via, b) ==
    [op |-> "codec", kind |-> "received", decoder |-> d, via |-> via, value |-> None,
     wire |-> Some(IF via = "bs58" THEN Bs58Encode(b) ELSE b), result |-> Pending]

CodecInit ==
    /\ \/ call \in CodecValueCalls
       \/ \E d \in CodecKinds, via \in {"bytes", "bs58"}, b \in WireInputs :
             IF ReadsWholeFields(d, b) THEN call = CodecReceivedCall(d, via, b) ELSE FALSE
       \/ \E d \in CodecKinds :
             call = [op |-> "codec", kind |-> "received", decoder |-> d, via |-> "bs58",
                     value |-> None, wire |-> Some(NotBase58), result |-> Pending]
    /\ ProtocolIdle

CodecSerialize ==
    /\ call.op = "codec"
    /\ call.value.tag = "Some"
    /\ call.wire = None
    /\ call' = [call EXCEPT !.wire = Some(Encode(call.kind, call.via, call.value.v))]
    /\ UNCHANGED ProtocolVars

CodecDeserialize ==
    /\ call.op = "codec"
    /\ call.wire.tag = "Some"
    /\ call.result = Pending
    /\ call' = [call EXCEPT !.result = Decode(call.decoder, call.via, call.wire.v)]
    /\ UNCHANGED ProtocolVars

CodecNext == CodecSerialize \/ CodecDeserialize

SpecCodec == CodecInit /\ [][CodecNext]_vars

\* ================================================================== claims
IsPoint(b) == PointFromBytes(b).tag = "Ok"
AllPoints(ks) == \A i \in 1 .. Len(ks) : IsPoint(ks[i])
KeyAggDone == call.op = "key_agg" /\ call.result # Pending
AggDone == call.op = "sign_and_broadcast_token" /\ call.result # Pending

\* C7: key_agg, step_two_token and sign_and_broadcast_token return a result or
\* an Error for every input, the empty key list and the empty list of partial
\* signatures included; none of them panics.
C7_NeverPanics == call.result.tag # "Panic"

\* C8: for a list L of keys and a key P that is no entry of L,
\* key_agg(L, Some(P)) fails with KeyPairIsNotInKeys and returns no key.
C8_FocusOutsideListFails ==
    (/\ KeyAggDone
     /\ call.key.tag = "Some"
     /\ AllPoints(call.keys) /\ IsPoint(call.key.v)
     /\ \A i \in 1 .. Len(call.keys) : call.keys[i] # call.key.v)
        => call.result = Err("KeyPairIsNotInKeys")

C8_Witness ==
    /\ KeyAggDone
    /\ call.key.tag = "Some"
    /\ Len(call.keys) = 2
    /\ AllPoints(call.keys) /\ IsPoint(call.key.v)
    /\ \A i \in 1 .. Len(call.keys) : call.keys[i] # call.key.v
    /\ call.result = Err("KeyPairIsNotInKeys")

\* C9: for a list of exactly one valid key P, key_agg([P], None) succeeds and
\* its aggregated public key is P.
C9_SingleKeyIdentity ==
    (/\ KeyAggDone
     /\ call.key = None
     /\ Len(call.keys) = 1 /\ IsPoint(call.keys[1]))
        => (call.result.tag = "Ok" /\ AggPubkey(call.result.v) = call.keys[1])

\* The call got past the R check and the decoding of every R and s.
ReachesVerification(c) ==
    /\ key_agg(c.keys, None).tag = "Ok"
    /\ c.signatures # <<>>
    /\ \A i \in 1 .. Len(c.signatures) : c.signatures[i][1] = c.signatures[1][1]
    /\ IsPoint(c.signatures[1][1])
    /\ \A i \in 1 .. Len(c.signatures) : c.signatures[i][2] \in Scalars

\* The message of the transaction rebuilt from the arguments of the call.
RebuiltMessage(c) ==
    [create_unsigned_token_transaction(Mint, 1, Decimals, Recipient,
         AggPubkey(key_agg(c.keys, None).v), c.rpc).v.message
        EXCEPT !.recent_blockhash = Blockhash]

\* R of the first partial and the sum of all partial s.
SummedSignature(c) ==
    <<c.signatures[1][1],
      SumSeq([i \in 1 .. Len(c.signatures) |-> c.signatures[i][2]])>>

\* C3: sign_and_broadcast_token returns Ok(tx) only if tx has exactly one
\* signature and it verifies under the aggregated key over the rebuilt message
\* with the given blockhash; every other call that reaches the verification
\* returns InvalidSignature and no transaction.
C3_OkOnlyIfVerified ==
    AggDone =>
        /\ call.result.tag = "Ok" =>
              /\ Len(call.result.v.signatures) = 1
              /\ call.result.v.message = RebuiltMessage(call)
              /\ call.result.v.message.recent_blockhash = Blockhash
              /\ Ed25519Verify(AggPubkey(key_agg(call.keys, None).v),
                               MessageData(RebuiltMessage(call)),
                               call.result.v.signatures[1])
        /\ (/\ ReachesVerification(call)
            /\ ~Ed25519Verify(AggPubkey(key_agg(call.keys, None).v),
                              MessageData(RebuiltMessage(call)),
                              SummedSignature(call)))
              => call.result = Err("InvalidSignature")

C3_Witness ==
    /\ AggDone
    /\ Len(call.signatures) = 2
    /\ call.signatures[1] # call.signatures[2]
    /\ call.result.tag = "Ok"

\* Position i holds the one partial whose R differs from the R all others share.
OddOneOut(sigs, i) ==
    /\ \A j, k \in (1 .. Len(sigs)) \ {i} : sigs[j][1] = sigs[k][1]
    /\ \A j \in (1 .. Len(sigs)) \ {i} : sigs[j][1] # sigs[i][1]

\* C5: of at least two partial signatures with equal R, replacing the R of any
\* single one (the first included) by other bytes makes
\* sign_and_broadcast_token fail with MismatchMessages.
C5_ReplacedRIsMismatch ==
    (/\ AggDone
     /\ key_agg(call.keys, None).tag = "Ok"
     /\ Len(call.signatures) >= 2
     /\ \E i \in 1 .. Len(call.signatures) : OddOneOut(call.signatures, i))
        => call.result = Err("MismatchMessages")

C5_Witness ==
    /\ AggDone
    /\ Len(call.signatures) = 3
    /\ OddOneOut(call.signatures, 1)
    /\ call.result = Err("MismatchMessages")

\* C6: permuting the partial signatures handed to sign_and_broadcast_token
\* changes neither success or failure nor, on success, the final signature.
Reorderings(sigs) ==
    {[i \in 1 .. Len(sigs) |-> sigs[pi[i]]] : pi \in Permutations(1 .. Len(sigs))}

C6_PermutationInvariant ==
    AggDone =>
        \A permuted \in Reorderings(call.signatures) :
            AggApply([call EXCEPT !.signatures = permuted]) = call.result

C6_Witness ==
    /\ AggDone
    /\ Len(call.signatures) = 3
    /\ call.signatures[1][2] # call.signatures[2][2]
    /\ call.signatures[2][2] # call.signatures[3][2]
    /\ call.result.tag = "Ok"

\* -------------------------------------------------------- protocol claims
\* The R bytes of a printed partial signature.
RBytesOf(rec) == rec.signature.bs58[2].v

\* The step-two run rec was given the first messages of all parties.
GivenAllFirstMessages(rec) == rec.senders = Party

\* The step-two run rec was given the first messages of all other parties.
GivenOtherFirstMessages(rec) == rec.senders = Party \ {rec.party}

\* The aggregation a was given one partial signature of every party, all made
\* for the parameters and the ATA answer the aggregation itself uses.
OnePartialPerParty(a) ==
    /\ Len(a.sel) = NParties
    /\ {a.sel[i].party : i \in 1 .. Len(a.sel)} = Party
    /\ \A i \in 1 .. Len(a.sel) : a.sel[i].amount = a.amount /\ a.sel[i].rpc = a.rpc

\* The aggregation a returned a transaction whose one signature verifies under
\* the aggregated key.
ReturnedVerifiedTransaction(a) ==
    /\ a.result.tag = "Ok"
    /\ Len(a.result.v.signatures) = 1
    /\ Ed25519Verify(AggPubkey(key_agg(SessionKeys, None).v),
                     MessageData(a.result.v.message), a.result.v.signatures[1])

\* C1: when every party ran step one once, every party ran step two with the
\* same parameters and the AggMessage1 of all participants, and
\* sign_and_broadcast_token is given all N partial signatures with those
\* parameters, it returns Ok with a transaction whose single signature
\* verifies under the aggregated key.
C1_FullRunYieldsValidTransaction ==
    (/\ agg # None
     /\ OnePartialPerParty(agg.v)
     /\ \A i \in 1 .. Len(agg.v.sel) : GivenAllFirstMessages(agg.v.sel[i]))
        => ReturnedVerifiedTransaction(agg.v)

\* C2: when each party hands step two the AggMessage1 of every participant,
\* its own included, in any order, all partial signatures carry the same R.
C2_SameRForAllParties ==
    \A a, b \in partials :
        (/\ GivenAllFirstMessages(a) /\ GivenAllFirstMessages(b)
         /\ a.amount = b.amount /\ a.rpc = b.rpc)
            => RBytesOf(a) = RBytesOf(b)

\* C4: a private nonce pair is used for at most one partial signature: once a
\* step two has signed with a SecretAggStepOne, no other step two signs with it.
C4_NoncesSignOnce ==
    \A a, b \in partials :
        (a.party = b.party /\ a.secret_state = b.secret_state) => a = b

\* The protocol as the upstream command line runs it: every party hands step
\* two the first messages of the other parties; the aggregation then succeeds.
OthersOnlyRunVerifies ==
    (/\ agg # None
     /\ OnePartialPerParty(agg.v)
     /\ \A i \in 1 .. Len(agg.v.sel) : GivenOtherFirstMessages(agg.v.sel[i]))
        => ReturnedVerifiedTransaction(agg.v)

OthersOnlyRunReached ==
    /\ agg # None
    /\ OnePartialPerParty(agg.v)
    /\ \A i \in 1 .. Len(agg.v.sel) : GivenOtherFirstMessages(agg.v.sel[i])
    /\ agg.v.result.tag = "Ok"

\* ---------------------------------------------------- key order (C11)
\* The call was key_agg([P, Q], None) for two distinct valid keys P and Q.
TwoDistinctKeysNoFocus ==
    /\ KeyAggDone
    /\ call.key = None
    /\ Len(call.keys) = 2
    /\ AllPoints(call.keys)
    /\ call.keys[1] # call.keys[2]

\* The same call with the two keys swapped.
SwappedResult == key_agg(<<call.keys[2], call.keys[1]>>, None)

CodecDone == call.op = "codec" /\ call.result # Pending

\* The bytes that reached the decoder.
WireBytes == IF call.via = "bs58" THEN call.wire.v.bs58 ELSE call.wire.v

\* The decoder was handed bytes (not a text that is no base58).
DecodedBytes == CodecDone /\ (call.via = "bytes" \/ "bs58" \in DOMAIN call.wire.v)

\* The length below which a decoder answers InputTooShort at once.
MinLength(kind) ==
    CASE kind = "AggregatedKey" -> 1 + 32 + 4
      [] kind = "AggMessage1" -> 1 + 32 + 32 + 32
      [] kind = "PartialSignature" -> 1 + 64
      [] kind = "SecretAggStepOne" -> 1 + 32 + 32 + 32 + 32

\* C12: for every valid value x of the four types, deserialize(serialize(x))
\* and deserialize_bs58(serialize_bs58(x)) return x.
C12_RoundTrip ==
    (CodecDone /\ call.value.tag = "Some" /\ call.decoder = call.kind)
        => call.result = Ok(call.value.v)

C12_Witness ==
    /\ CodecDone
    /\ call.kind = "AggMessage1" /\ call.decoder = "AggMessage1"
    /\ call.via = "bs58"
    /\ call.value.v.public_nonces[1] # call.value.v.public_nonces[2]
    /\ call.result = Ok(call.value.v)

\* C13: the encoding of a value of one type never decodes with the decoder of
\* another type; when it has the decoder's minimum length the decoder fails
\* with WrongTag, expected the decoder's tag, found the tag of the encoding.
C13_OtherTypeIsWrongTag ==
    (CodecDone /\ call.value.tag = "Some" /\ call.decoder # call.kind)
        => /\ call.result.tag = "Err"
           /\ ByteLen(WireBytes) >= MinLength(call.decoder)
                 => call.result = Err(WrongTag(call.decoder, call.kind))

C13_Witness ==
    /\ CodecDone
    /\ call.value.tag = "Some"
    /\ call.kind = "AggMessage1" /\ call.decoder = "PartialSignature"
    /\ call.via = "bs58"
    /\ call.result = Err(WrongTag("PartialSignature", "AggMessage1"))

\* The first byte is none of the five tag values.
UndefinedTagByte(t) ==
    t \notin {TagAggregatedKey, TagAggMessage1, TagPartialSignature,
              TagSecretAggStepOne, TagKeyAggMessage}

\* C14: an input of the decoder's minimum length whose first byte is no
\* defined tag fails with WrongTag, expected the decoder's tag, found Unknown;
\* and no decoding ends in a panic.
C14_UnknownTagIsWrongTag ==
    DecodedBytes =>
        /\ call.result.tag # "Panic"
        /\ (/\ ByteLen(WireBytes) >= MinLength(call.decoder)
            /\ UndefinedTagByte(WireBytes[1].v))
              => call.result = Err(WrongTag(call.decoder, "Unknown"))

C14_Witness ==
    /\ DecodedBytes
    /\ call.decoder = "SecretAggStepOne"
    /\ ByteLen(WireBytes) >= MinLength(call.decoder)
    /\ WireBytes[1].v = 255
    /\ call.result = Err(WrongTag("SecretAggStepOne", "Unknown"))

\* The point fields and the scalar fields of the bytes a decoder was handed,
\* for bytes of the decoder's tag and minimum length.
PointFields ==
    CASE call.decoder = "AggMessage1" -> {WireBytes[2].v, WireBytes[3].v}
      [] call.decoder = "PartialSignature" -> {WireBytes[2].v}
      [] call.decoder = "SecretAggStepOne" -> {WireBytes[4].v, WireBytes[5].v}
      [] OTHER -> {}
ScalarFields ==
    CASE call.decoder = "PartialSignature" -> {WireBytes[3].v}
      [] call.decoder = "SecretAggStepOne" -> {WireBytes[2].v, WireBytes[3].v}
      [] OTHER -> {}

\* C15: a decoder handed bytes of its tag and length rejects a point field
\* that is no valid point with InvalidPoint and a scalar field that is not
\* canonical with InvalidScalar (PartialSignature, AggMessage1 and
\* SecretAggStepOne alike): it never returns a value holding either.
C15_DecodersRejectInvalidFields ==
    (/\ DecodedBytes
     /\ ByteLen(WireBytes) >= MinLength(call.decoder)
     /\ TagFromU8(WireBytes[1].v) = call.decoder)
        => /\ (\E f \in PointFields : ~IsPoint(f)) \/ (\E f \in ScalarFields : f \notin Scalars)
                 => call.result \in {Err(InvalidPoint), Err(InvalidScalar)}
           /\ ((\E f \in PointFields : ~IsPoint(f)) /\ (\A f \in ScalarFields : f \in Scalars))
                 => call.result = Err(InvalidPoint)
           /\ ((\A f \in PointFields : IsPoint(f)) /\ (\E f \in ScalarFields : f \notin Scalars))
                 => call.result = Err(InvalidScalar)

\* The part of C15 the other decoders keep: AggMessage1 and SecretAggStepOne
\* reject invalid points and scalars.
NonceDecodersRejectInvalidFields ==
    call.decoder \in {"AggMessage1", "SecretAggStepOne"} => C15_DecodersRejectInvalidFields

\* ------------------------------------------------------ signed bytes (C16)
\* The bytes the aggregation a verifies the final signature against: the
\* message of the transaction it builds again from its own arguments.
RebuiltMessageData(a) ==
    MessageData(rebuild_transaction(Mint, a.amount, Decimals, Recipient, Blockhash,
                                    AggPubkey(key_agg(SessionKeys, None).v),
                                    a.rpc).v.message)

\* The step-two run rec had the parameters and the ATA answer of aggregation a.
SameParameters(rec, a) == rec.amount = a.amount /\ rec.rpc = a.rpc

\* C16: for the same keys, mint, amount, decimals, recipient, blockhash and ATA
\* answer, the bytes every party signs in step two are the same, and they are
\* the bytes sign_and_broadcast_token builds again and verifies against.
C16_AllSignTheVerifiedBytes ==
    /\ \A a, b \in partials :
          (a.amount = b.amount /\ a.rpc = b.rpc) => a.message_data = b.message_data
    /\ agg # None =>
          \A i \in 1 .. Len(agg.v.sel) :
              SameParameters(agg.v.sel[i], agg.v) =>
                  /\ agg.v.sel[i].message_data = RebuiltMessageData(agg.v)
                  /\ agg.v.result.tag = "Ok" =>
                        MessageData(agg.v.result.v.message) = agg.v.sel[i].message_data

C16_Witness ==
    /\ agg # None
    /\ agg.v.result.tag = "Ok"
    /\ Len(agg.v.sel) = NParties
    /\ \A i \in 1 .. Len(agg.v.sel) : SameParameters(agg.v.sel[i], agg.v)
    /\ \E i, j \in 1 .. Len(agg.v.sel) :
          /\ agg.v.sel[i].party # agg.v.sel[j].party
          /\ agg.v.sel[i].message_data = agg.v.sel[j].message_data
    /\ MessageData(agg.v.result.v.message) = agg.v.sel[1].message_data

\* ------------------------------------- the transaction builder (C17, C19)
TxDone == call.op = "create_unsigned_token_transaction" /\ call.result # Pending

\* C17: when the lookup of the destination ATA fails with an RPC error, the
\* builder returns an error and no transaction.
C17_LookupFailureSurfaces ==
    (TxDone /\ call.rpc = "TransportError") => call.result.tag = "Err"

\* What the builder does with a failed lookup: it builds the transaction of
\* a missing ATA.
LookupFailureReadAsMissing ==
    (TxDone /\ call.rpc = "TransportError") =>
        call.result = create_unsigned_token_transaction(
                          call.mint, call.amount, call.decimals, call.to,
                          call.payer, "AccountNotFound")

\* The instruction list of the claim for the drawn arguments.
ExpectedInstructions ==
    LET create == [kind |-> "create_associated_token_account",
                   payer |-> call.payer, wallet |-> call.to, mint |-> call.mint,
                   token_program |-> TokenProgramId]
        transfer == [kind |-> "transfer_checked", token_program |-> TokenProgramId,
                     source |-> get_ata_address(call.payer, call.mint),
                     mint |-> call.mint,
                     destination |-> get_ata_address(call.to, call.mint),
                     authority |-> call.payer, amount |-> call.amount,
                     decimals |-> call.decimals]
    IN  IF ataExists THEN <<transfer>> ELSE <<create, transfer>>

WellFormedUnsigned ==
    /\ call.result.tag = "Ok"
    /\ call.result.v.signatures = <<DefaultSignature>>
    /\ call.result.v.message.fee_payer = call.payer
    /\ call.result.v.message.instructions = ExpectedInstructions

\* C19: the builder returns an unsigned transaction with one signature slot
\* and the payer as fee payer; its instructions are the creation of the
\* destination ATA exactly when that account does not exist, then one
\* transfer_checked between the two ATAs with the payer as authority.
C19_TransactionShape == TxDone => WellFormedUnsigned

\* The same when the lookup answered the question.
ShapeWhenLookupAnswers ==
    (TxDone /\ call.rpc # "TransportError") => WellFormedUnsigned

\* --------------------------------------------- senders of first messages (C20)
StepTwoDone == call.op = "step_two_token" /\ call.result # Pending

\* The first messages whose sender is a key of the participant list.
RECURSIVE MessagesOfParticipants(_, _)
MessagesOfParticipants(first_messages, keys) ==
    IF first_messages = <<>> THEN <<>>
    ELSE LET rest == MessagesOfParticipants(Tail(first_messages), keys)
         IN  IF \E i \in 1 .. Len(keys) : keys[i] = Head(first_messages).sender
             THEN <<Head(first_messages)>> \o rest
             ELSE rest

\* C20: a first message whose sender is no key of the participant list never
\* contributes to the combined nonce R of a produced partial signature: R is
\* the one the participants' messages alone give.
C20_OutsiderNoncesUnused ==
    (StepTwoDone /\ call.result.tag = "Ok") =>
        LET alone == StepTwoApply(call, MessagesOfParticipants(call.first_messages,
                                                               call.keys))
        IN  /\ alone.tag = "Ok"
            /\ alone.v[1] = call.result.v[1]

\* What step two does: the sender of a first message is never read.
RECURSIVE WithSender(_, _)
WithSender(first_messages, k) ==
    IF first_messages = <<>> THEN <<>>
    ELSE <<[Head(first_messages) EXCEPT !.sender = k]>>
             \o WithSender(Tail(first_messages), k)

SenderIsNeverRead ==
    StepTwoDone =>
        call.result = StepTwoApply(call, WithSender(call.first_messages, OutsiderKey))

\* ------------------------------------------------ disagreeing runs (C21)
\* Some step-two run of aggregation a saw another amount or ATA answer than
\* another run of a or than a itself.
RunsDisagree(a) ==
    \E i \in 1 .. Len(a.sel) :
        \/ ~SameParameters(a.sel[i], a)
        \/ \E j \in 1 .. Len(a.sel) :
              \/ a.sel[i].amount # a.sel[j].amount
              \/ a.sel[i].rpc # a.sel[j].rpc

\* The bytes of a disagreeing aggregation: some step-two run signed other
\* bytes than another run, or than the bytes step three verifies against.
SignedBytesDiffer(a) ==
    \E i \in 1 .. Len(a.sel) :
        \/ a.sel[i].message_data # RebuiltMessageData(a)
        \/ \E j \in 1 .. Len(a.sel) : a.sel[i].message_data # a.sel[j].message_data

\* Every disagreement on the amount or the ATA answer reaches the signed bytes.
DisagreementChangesSignedBytes ==
    (agg # None /\ RunsDisagree(agg.v)) => SignedBytesDiffer(agg.v)

\* A disagreeing aggregation whose summed signature verifies all the same: in
\* a group of Q elements one signature in Q verifies against foreign bytes.
DisagreementNeverVerifies ==
    (agg # None /\ RunsDisagree(agg.v)) => agg.v.result.tag # "Ok"

\* ------------------------------------------------- missing signers (C22)
\* The parties whose partial signatures were handed to aggregation a.
SignersOf(a) == {a.sel[i].party : i \in 1 .. Len(a.sel)}

\* An aggregation of the partials of a proper subset of the parties that
\* returns a transaction: as above, an accident of the group of Q elements.
SubsetNeverVerifies ==
    (agg # None /\ SignersOf(agg.v) # Party) => agg.v.result.tag # "Ok"

\* ------------------------------------------------------- broadcast (C23)
\* The signature of tx is valid for its fee payer over its message bytes.
SignatureVerified(tx) ==
    /\ Len(tx.signatures) = 1
    /\ Ed25519Verify(tx.message.fee_payer, MessageData(tx.message), tx.signatures[1])

\* C23: send_transaction is called only on the transaction that
\* sign_and_broadcast_token has just returned, whose signature verified; a run
\* of the command that ends in an error broadcasts nothing.
C23_BroadcastOnlyVerified ==
    [][sent' # sent =>
          /\ agg' # None
          /\ agg'.v.result.tag = "Ok"
          /\ sent' = sent \cup {agg'.v.result.v}
          /\ SignatureVerified(agg'.v.result.v)]_vars

C23_Witness ==
    /\ agg # None
    /\ agg.v.result.tag = "Ok"
    /\ agg.v.result.v \in sent
    /\ SignatureVerified(agg.v.result.v)

\* ------------------------------------------- order of the checks (C24)
\* key_agg was called with a focus whose bytes equal no entry of the list.
FocusBytesOutsideList ==
    /\ KeyAggDone
    /\ call.key.tag = "Some"
    /\ \A i \in 1 .. Len(call.keys) : call.keys[i] # call.key.v

\* The focus or an entry of the list is no encoding of a point.
SomeKeyInvalid ==
    \/ PointFromBytes(call.key.v).tag = "Err"
    \/ \E i \in 1 .. Len(call.keys) : PointFromBytes(call.keys[i]).tag = "Err"

\* C24 as claimed: key_agg with a focus that is bytewise no entry of the list
\* fails with KeyPairIsNotInKeys, even when the focus or an entry is no valid
\* point.
C24_MembershipBeforeDecoding ==
    FocusBytesOutsideList => call.result = Err("KeyPairIsNotInKeys")

\* C24 amended: key_agg decodes the entries and the focus before the
\* membership test.  With a focus that is bytewise no entry of the list it
\* fails with PointDeserializationFailed when the focus or an entry is no
\* valid point, and with KeyPairIsNotInKeys only when all of them decode.
C24_DecodingBeforeMembership ==
    FocusBytesOutsideList =>
        call.result = IF SomeKeyInvalid THEN Err("PointDeserializationFailed")
                      ELSE Err("KeyPairIsNotInKeys")

C24_Witness ==
    /\ FocusBytesOutsideList
    /\ SomeKeyInvalid
    /\ PointFromBytes(call.key.v).tag = "Ok"
    /\ call.result = Err("PointDeserializationFailed")

\* --------------------------------------------- the output of step one (C25)
\* The two lines party p printed in step one, decoded.
PrintedMessage(p) == AggMessage1_deserialize_bs58(shares[p].v.public)
PrintedSecret(p) == SecretAggStepOne_deserialize_bs58(shares[p].v.secret)

\* r * B for a scalar r and the base point B.
BasePointTimes(r) == r % Q

\* The public nonces of st are its private nonces times the base point.
NoncesMatch(st) ==
    \A j \in 1 .. 2 : st.public_nonces[j] = BasePointTimes(st.private_nonces[j])

\* C25: the AggMessage1 of step one names the caller's own public key as its
\* sender, and its public nonces are those of the returned SecretAggStepOne,
\* which are the private nonces of that state times the base point.
C25_StepOneOutputsAgree ==
    \A p \in Party :
        shares[p] # None =>
            /\ PrintedMessage(p).tag = "Ok"
            /\ PrintedSecret(p).tag = "Ok"
            /\ PrintedMessage(p).v.sender = KeypairPubkey(p)
            /\ PrintedMessage(p).v.public_nonces = PrintedSecret(p).v.public_nonces
            /\ NoncesMatch(PrintedSecret(p).v)

C25_Witness ==
    \E p \in Party :
        /\ shares[p] # None
        /\ PrintedSecret(p).tag = "Ok"
        /\ PrintedSecret(p).v.private_nonces[1] # PrintedSecret(p).v.private_nonces[2]
        /\ PrintedMessage(p).v.public_nonces = PrintedSecret(p).v.public_nonces

\* ------------------------------------------ mismatched secret states (C26)
\* The state step two was handed is what the decoder returns for its tag-3
\* encoding.
SecretStateDecodes ==
    SecretAggStepOne_deserialize(SecretAggStepOne_serialize(call.secret_state))
        = Ok(call.secret_state)

\* C26: step two signs only with a SecretAggStepOne whose public nonces are
\* its private nonces times the base point; a state whose halves do not match
\* yields no partial signature.
C26_MismatchedStateNeverSigns ==
    (StepTwoDone /\ call.result.tag = "Ok") => NoncesMatch(call.secret_state)

\* The decoder accepts the mismatched states and step two, called by a party
\* of the list, signs with them.
MismatchedStateSigns ==
    (/\ StepTwoDone
     /\ ~NoncesMatch(call.secret_state)
     /\ key_agg(call.keys, Some(KeypairPubkey(call.keypair))).tag = "Ok") =>
        /\ SecretStateDecodes
        /\ call.result.tag \in {"Ok", "Panic"}

\* --------------------------------------- focus and aggregated key (C27)
\* C27: the aggregated key of key_agg depends on the list only: whenever
\* key_agg returns a key, key_agg(keys, None) and key_agg(keys, Some(k)) for
\* every entry k of the list return that same aggregated key.
C27_FocusDoesNotReachAggregatedKey ==
    (KeyAggDone /\ call.result.tag = "Ok") =>
        /\ key_agg(call.keys, None).tag = "Ok"
        /\ key_agg(call.keys, None).v.agg_public_key = call.result.v.agg_public_key
        /\ \A i \in 1 .. Len(call.keys) :
              /\ key_agg(call.keys, Some(call.keys[i])).tag = "Ok"
              /\ key_agg(call.keys, Some(call.keys[i])).v.agg_public_key
                     = call.result.v.agg_public_key

C27_Witness ==
    /\ KeyAggDone
    /\ call.result.tag = "Ok"
    /\ Len(call.keys) = 2
    /\ call.keys[1] # call.keys[2]
    /\ call.key = Some(call.keys[2])
    /\ key_agg(call.keys, None).v.agg_public_key = call.result.v.agg_public_key
    /\ key_agg(call.keys, None).v.musig_coefficient # call.result.v.musig_coefficient

\* ------------------------------------------- a caller outside the list (C28)
\* The public key of the caller is no entry of the list, whose entries are
\* all points.
CallerOutsideList ==
    /\ StepTwoDone
    /\ AllPoints(call.keys)
    /\ \A i \in 1 .. Len(call.keys) : call.keys[i] # KeypairPubkey(call.keypair)

\* C28: step_two_token for a keypair whose public key is no entry of keys
\* fails with KeyPairIsNotInKeys before the transaction is built: it makes no
\* account lookup and returns no partial signature.
C28_OutsiderFailsBeforeLookup ==
    CallerOutsideList =>
        /\ call.result = Err("KeyPairIsNotInKeys")
        /\ call.lookups = <<>>

C28_Witness ==
    /\ CallerOutsideList
    /\ call.first_messages # <<>>
    /\ call.result = Err("KeyPairIsNotInKeys")
    /\ call.lookups = <<>>

\* A caller of the list has the destination ATA looked up once.
MemberLooksUpOnce ==
    (StepTwoDone /\ call.result.tag = "Ok") =>
        call.lookups = <<get_ata_address(Recipient, Mint)>>

\* ---------------------------------------------------- trailing bytes (C29)
\* Bytes that follow an encoding: one byte, thirty-two bytes, both.
TrailingInputs ==
    {<<[w |-> 1, v |-> 255]>>, <<Word32(0)>>, <<Word32(1), [w |-> 1, v |-> 0]>>}

\* The number of bytes the decoder of kind reads of b, which it decodes.
EncodedLength(kind, b) ==
    IF kind = "AggregatedKey" THEN MinLength(kind) + (b[3].v * 32) ELSE MinLength(kind)

\* C29: a decoder that succeeds on b succeeds with the same value on b
\* followed by any extra bytes; the four decoders reject only inputs shorter
\* than the encoded length, so distinct byte strings decode to one value.
C29_TrailingBytesIgnored ==
    (DecodedBytes /\ call.result.tag = "Ok") =>
        \A e \in TrailingInputs :
            Deserialize(call.decoder, WireBytes \o e) = call.result

C29_Witness ==
    /\ DecodedBytes
    /\ call.decoder = "AggMessage1"
    /\ call.result.tag = "Ok"
    /\ ByteLen(WireBytes) > EncodedLength(call.decoder, WireBytes)
    /\ \E e \in TrailingInputs : Deserialize(call.decoder, WireBytes \o e) = call.result

====
